---------------------------- MODULE Spec2Model ----------------------------
(***************************************************************************)
(* The asset proxy/cache of server.go: handleVcsky, serveLocalFile,        *)
(* proxyAndCache, downloadFile and downloadWithWorkers, as a state machine *)
(* over the cache directory (fs), the in-flight registry                   *)
(* (activeDownloads), the live client requests and the bulk worker pool.   *)
(*                                                                         *)
(* A path is a tuple of name segments: <<"foo">> is foo, <<"foo","br">> is *)
(* foo.br, <<"foo","tmp">> is foo.tmp.  A file is a sequence of bytes      *)
(* (naturals); bodies are streamed one byte per step.                      *)
(***************************************************************************)
EXTENDS Integers, Sequences, FiniteSets

\* ------------------------------------------------------------------ bounds
\* Largest worker count of a bulk run, and longest item list.
MaxWorkers == 2
MaxItems == 2

\* maxProxySize, in bytes of the model (server.go: 500 * 1024 * 1024).
maxProxySize == 3

\* The live requests, the asset names, and the names of the bulk lists.
Reqs == {"r1", "r2"}
ItemNames == {"foo", "bar"}
Workers == 1..MaxWorkers

\* No file at a path (a file holds naturals only).
NoFile == <<-1>>

\* ------------------------------------------------------------ pure helpers
Min(a, b) == IF a < b THEN a ELSE b

Last(s) == s[Len(s)]
Front(s) == SubSeq(s, 1, Len(s) - 1)

\* strings.HasSuffix(path, "." + ext) and strings.TrimSuffix(path, "." + ext)
HasSuffix(path, ext) == Len(path) > 1 /\ Last(path) = ext
TrimSuffix(path, ext) == IF HasSuffix(path, ext) THEN Front(path) ELSE path

\* The bytes the origin holds for the asset called name, and the bytes of an
\* asset longer than maxProxySize.
Raw(name) == IF name = "foo" THEN <<1, 2>> ELSE <<3, 4>>
BigRaw(name) == Raw(name) \o <<5, 6>>

\* A brotli stream of s: a header carrying the length, then the symbols.
BrEncode(s) == <<100 + Len(s)>> \o [i \in 1..Len(s) |-> s[i] + 10]
\* A gzip stream of s: the gzip header, then the symbols.
GzEncode(s) == <<200>> \o [i \in 1..Len(s) |-> s[i] + 20]

\* brotli.NewReader over the bytes read so far: what it has produced, whether
\* it has met a malformed stream, and whether it has reached the stream's end.
BrHeaderOK(s) == Len(s) = 0 \/ (s[1] >= 100 /\ s[1] < 200)
BrWant(s) == IF Len(s) = 0 THEN 1 ELSE s[1] - 100 + 1
BrBad(s) == ~BrHeaderOK(s)
BrComplete(s) == Len(s) >= 1 /\ ~BrBad(s) /\ Len(s) >= BrWant(s)
BrOutput(s) ==
    IF Len(s) = 0 \/ BrBad(s) THEN <<>>
    ELSE [i \in 1..(Min(Len(s), BrWant(s)) - 1) |-> s[i + 1] - 10]

\* gzip.NewReader reads the header when it is built; then the symbols.
GzHeaderOK(s) == Len(s) >= 1 /\ s[1] = 200
GzOutput(s) == [i \in 1..(Len(s) - 1) |-> s[i + 1] - 20]

\* The body the origin sends for a path: the asset, brotli- or gzip-encoded
\* when the path carries that suffix.
OriginBody(path, big) ==
    LET raw == IF big THEN BigRaw(path[1]) ELSE Raw(path[1])
    IN  IF HasSuffix(path, "br") THEN BrEncode(raw)
        ELSE IF HasSuffix(path, "gz") THEN GzEncode(raw)
        ELSE raw

\* ------------------------------------------------------------------- state
VARIABLES
    fs,               \* the cache directory: path -> bytes, or NoFile
    activeDownloads,  \* sync.Map of destination paths being downloaded
    req,              \* the live client requests (one handler goroutine each)
    files,            \* the item list of the bulk run
    workers,          \* the -workers flag
    work,             \* the work channel's buffer
    sent,             \* how many items the main goroutine has sent
    closed,           \* close(work) has run
    mainPc,           \* where downloadWithWorkers' own goroutine is
    wk,               \* the worker goroutines
    downloaded, skipped, failed,   \* the atomic counters
    result,           \* what downloadWithWorkers returns
    fetchFailed       \* history: single-item fetches that met a failure

vars == <<fs, activeDownloads, req, files, workers, work, sent, closed, mainPc,
          wk, downloaded, skipped, failed, result, fetchFailed>>
bulkVars == <<files, workers, work, sent, closed, mainPc, wk, downloaded,
              skipped, failed, result, fetchFailed>>

\* The paths a client asks for, and every path of the cache directory.
AssetPaths == {<<"foo">>, <<"foo", "br">>, <<"foo", "gz">>}
\* A request path with a parent-directory segment.
Up == <<"..", "foo">>
ItemPaths == {<<n>> : n \in ItemNames}
\* proxyAndCache: os.CreateTemp(dir, ".tmp-*") gives each call a fresh name.
TempOf(r) == <<".tmp-", r>>
\* A bug: downloadFile writes the destination itself.
TmpPathInPlace(destPath) == destPath
\* downloadFile: tmpPath := destPath + ".tmp"
TmpPath(destPath) == destPath \o <<"tmp">>
FsPaths ==
    {p : p \in AssetPaths \cup ItemPaths \cup {TmpPath(q) : q \in ItemPaths}
                \cup {TempOf(r) : r \in Reqs}}

\* os.Stat(path) succeeds.
Exists(f, path) == path \in DOMAIN f /\ f[path] # NoFile

\* ------------------------------------------------------------ serveLocalFile
NoPath == <<>>

\* A bug: gzip is looked for before brotli.
PickVariantGzipFirst(f, basePath, clientAcceptsBr, clientAcceptsGzip) ==
    IF clientAcceptsGzip /\ Exists(f, basePath \o <<"gz">>)
        THEN [servePath |-> basePath \o <<"gz">>, encoding |-> "gzip"]
    ELSE IF clientAcceptsBr /\ Exists(f, basePath \o <<"br">>)
        THEN [servePath |-> basePath \o <<"br">>, encoding |-> "br"]
    ELSE [servePath |-> NoPath, encoding |-> ""]

\* Lines 345-358: the pre-compressed variant to serve, NoPath when none is.
PickVariant(f, basePath, clientAcceptsBr, clientAcceptsGzip) ==
    IF clientAcceptsBr /\ Exists(f, basePath \o <<"br">>)
        THEN [servePath |-> basePath \o <<"br">>, encoding |-> "br"]
    ELSE IF clientAcceptsGzip /\ Exists(f, basePath \o <<"gz">>)
        THEN [servePath |-> basePath \o <<"gz">>, encoding |-> "gzip"]
    ELSE [servePath |-> NoPath, encoding |-> ""]

\* A bug: a missing requested path falls back to its brotli variant.
RequestedFileBrFallback(f, localPath) ==
    LET brPath == TrimSuffix(TrimSuffix(localPath, "br"), "gz") \o <<"br">>
    IN  IF Exists(f, localPath) \/ ~Exists(f, brPath)
        THEN [servePath |-> IF Exists(f, localPath) THEN localPath ELSE NoPath,
              encoding |-> IF ~Exists(f, localPath) THEN ""
                           ELSE IF HasSuffix(localPath, "br") THEN "br"
                           ELSE IF HasSuffix(localPath, "gz") THEN "gzip" ELSE ""]
        ELSE [servePath |-> brPath, encoding |-> "br"]

\* Lines 359-379: the requested path itself, when no variant was chosen.
RequestedFile(f, localPath) ==
    IF ~Exists(f, localPath) THEN [servePath |-> NoPath, encoding |-> ""]
    ELSE [servePath |-> localPath,
          encoding |-> IF HasSuffix(localPath, "br") THEN "br"
                       ELSE IF HasSuffix(localPath, "gz") THEN "gzip" ELSE ""]

\* A bug: the requested path is tried only for a client that accepts no
\* encoding.
ResolveVariantsOnly(f, localPath, clientAcceptsBr, clientAcceptsGzip) ==
    LET basePath == TrimSuffix(TrimSuffix(localPath, "br"), "gz")
        v == PickVariant(f, basePath, clientAcceptsBr, clientAcceptsGzip)
    IN  IF v.servePath # NoPath \/ clientAcceptsBr \/ clientAcceptsGzip THEN v
        ELSE RequestedFile(f, localPath)

\* Lines 336-379: servePath and encoding, servePath = NoPath on a miss.
Resolve(f, localPath, clientAcceptsBr, clientAcceptsGzip) ==
    LET basePath == TrimSuffix(TrimSuffix(localPath, "br"), "gz")
        v == PickVariant(f, basePath, clientAcceptsBr, clientAcceptsGzip)
    IN  IF v.servePath # NoPath THEN v ELSE RequestedFile(f, localPath)

\* serveLocalFile(w, r, localPath): whether it handled the request, and the
\* response it wrote: the file served, the Content-Encoding header, the body
\* (lines 391-414: a brotli file is decompressed for a client without brotli).
serveLocalFile(f, localPath, clientAcceptsBr, clientAcceptsGzip) ==
    LET pick == Resolve(f, localPath, clientAcceptsBr, clientAcceptsGzip)
    IN  IF pick.servePath = NoPath
            THEN [handled |-> FALSE, servePath |-> NoPath, encoding |-> "",
                  decompressed |-> FALSE, body |-> <<>>]
        ELSE IF pick.encoding = "br" /\ ~clientAcceptsBr
            THEN [handled |-> TRUE, servePath |-> pick.servePath,
                  encoding |-> "", decompressed |-> TRUE,
                  body |-> BrOutput(f[pick.servePath])]
        ELSE [handled |-> TRUE, servePath |-> pick.servePath,
              encoding |-> pick.encoding, decompressed |-> FALSE,
              body |-> f[pick.servePath]]

\* ------------------------------------------------------------ live requests
\* A request before its handler runs.
IdleReq ==
    [pc |-> "idle", path |-> NoPath, acceptBr |-> FALSE, acceptGz |-> FALSE,
     cachedAtStart |-> FALSE, fetched |-> FALSE, alreadyDownloading |-> FALSE,
     status |-> 0, contentLength |-> -1, big |-> FALSE, upstream |-> <<>>,
     needDecompress |-> FALSE, caching |-> FALSE, pos |-> 0, copyErr |-> FALSE,
     committed |-> FALSE, servePath |-> NoPath, encoding |-> "",
     decompressed |-> FALSE, code |-> 0, out |-> <<>>, ok |-> FALSE,
     statted |-> FALSE, peeked |-> FALSE, cacheFault |-> "",
     ioFault |-> FALSE, query |-> "", sentLength |-> -1,
     cancelled |-> FALSE]

\* The response of serveLocalFile, written to the client of request q.
ServedLocally(q, res) ==
    [q EXCEPT !.pc = "done", !.servePath = res.servePath,
              !.encoding = res.encoding, !.decompressed = res.decompressed,
              !.code = 200, !.out = res.body, !.ok = TRUE]

\* A bug: no path is taken for a traversal.
TraversalNever(path) == FALSE
\* Line 306: strings.Contains(path, "..")
Traversal(path) == \E i \in 1..Len(path) : path[i] = ".."

\* The body of http.NotFound.
NotFoundPage == <<40>>

\* handleVcsky, lines 302-317: the traversal check, then the local file.
HandleVcsky(r, paths, accepts, queries) ==
    /\ req[r].pc = "idle"
    /\ \E path \in paths, a \in accepts, rawQuery \in queries :
        LET localPath == path
            asked == [req[r] EXCEPT !.path = path, !.acceptBr = a.br,
                                    !.acceptGz = a.gzip, !.query = rawQuery]
            q == [asked EXCEPT !.cachedAtStart = Exists(fs, localPath),
                               !.statted = TRUE]
            res == serveLocalFile(fs, localPath, a.br, a.gzip)
        IN  req' = [req EXCEPT ![r] =
                        IF Traversal(path)
                            THEN [asked EXCEPT !.pc = "done", !.code = 404,
                                               !.out = NotFoundPage]
                        ELSE IF res.handled THEN ServedLocally(q, res)
                        ELSE [q EXCEPT !.pc = "proxy"]]
    /\ UNCHANGED <<fs, activeDownloads, bulkVars>>

\* proxyAndCache, lines 418-421: the local file again.
ProxyLocal(r) ==
    /\ req[r].pc = "proxy"
    /\ LET res == serveLocalFile(fs, req[r].path, req[r].acceptBr, req[r].acceptGz)
       IN  req' = [req EXCEPT ![r] =
                       IF res.handled THEN ServedLocally(req[r], res)
                       ELSE [req[r] EXCEPT !.pc = "peek"]]
    /\ UNCHANGED <<fs, activeDownloads, bulkVars>>

\* Lines 423-424: activeDownloads.Load(localPath).
Peek(r) ==
    /\ req[r].pc = "peek"
    /\ req' = [req EXCEPT ![r].alreadyDownloading = req[r].path \in activeDownloads,
                          ![r].peeked = TRUE, ![r].pc = "do"]
    /\ UNCHANGED <<fs, activeDownloads, bulkVars>>

\* What the origin may answer: a status, an asset of regular or excessive
\* size, with or without a declared Content-Length.
Found == [status |-> 200, big |-> FALSE, hasLength |-> TRUE]
NotFound == [status |-> 404, big |-> FALSE, hasLength |-> TRUE]
Responses ==
    {k : k \in {[status |-> 200, big |-> b, hasLength |-> h] :
                    b \in BOOLEAN, h \in BOOLEAN} \cup {NotFound}}
ErrorPage == <<44>>

\* A bug: the declared length is not checked.
TooLargeNever(contentLength) == FALSE
\* Line 452: resp.ContentLength > maxProxySize
TooLarge(contentLength) == contentLength > maxProxySize

\* Line 459: io.LimitReader(resp.Body, maxProxySize)
LimitReader(body) == SubSeq(body, 1, Min(Len(body), maxProxySize))

\* Lines 469-471: needDecompress := isBrFile && !clientAcceptsBr
NeedDecompress(url, clientAcceptsBr) == HasSuffix(url, "br") /\ ~clientAcceptsBr

\* handleVcsky, lines 320-323: url := cdn + path, then "?" + RawQuery; the
\* query makes two more pieces at the end of the url.
Url(path, rawQuery) ==
    IF rawQuery = "" THEN path ELSE path \o <<"?", rawQuery>>

\* What io.Copy has written to the client once `read` has been read from the
\* origin: the bytes themselves, or brotli.NewReader's output of them.
ClientBytes(q, read) == IF q.needDecompress THEN BrOutput(read) ELSE read

\* A bug: every response is cached.
CachesAlways(status, alreadyDownloading) == TRUE
\* Whether the stages after the response cache it (lines 479 and 495).
CachesResponse(status, alreadyDownloading) ==
    status = 200 /\ ~alreadyDownloading

\* Lines 426-508: the request to the origin, the size check, the headers and
\* the choice between passing the response through and caching it.
Do(r, responses) ==
    /\ req[r].pc = "do"
    /\ \/ req' = [req EXCEPT ![r].fetched = TRUE, ![r].code = 502,
                             ![r].pc = "done"]
       \/ \E k \in responses :
            LET q == req[r]
                url == Url(q.path, q.query)
                body == IF k.status = 200 THEN OriginBody(q.path, k.big)
                        ELSE ErrorPage
                cl == IF k.hasLength THEN Len(body) ELSE -1
                got == [q EXCEPT !.fetched = TRUE, !.status = k.status,
                                 !.contentLength = cl, !.big = k.big]
            IN  req' = [req EXCEPT ![r] =
                    IF TooLarge(cl)
                        THEN [got EXCEPT !.code = 502, !.pc = "done"]
                    ELSE [got EXCEPT
                            !.upstream = body,
                            !.needDecompress = NeedDecompress(url, q.acceptBr),
                            !.sentLength =
                                IF NeedDecompress(url, q.acceptBr) THEN -1 ELSE cl,
                            !.code = k.status,
                            !.pc = IF CachesResponse(k.status, q.alreadyDownloading)
                                   THEN "mktemp" ELSE "pass"]]
    /\ UNCHANGED <<fs, activeDownloads, bulkVars>>

\* The copy that has read every byte of `limited` ended without an error.
CopyEndsWell(q, limited) == ~q.needDecompress \/ BrComplete(limited)

\* Lines 480-491, 496-507, 514-525, 532-543: the response passed through to
\* the client with no cache file; the copy may stop early on an error.
Pass(r) ==
    /\ req[r].pc = "pass"
    /\ \E n \in 0..Len(LimitReader(req[r].upstream)) :
        LET limited == LimitReader(req[r].upstream)
        IN  req' = [req EXCEPT
                ![r].pos = n,
                ![r].out = ClientBytes(req[r], SubSeq(limited, 1, n)),
                ![r].copyErr = ~(n = Len(limited) /\ CopyEndsWell(req[r], limited)),
                ![r].ok = (n = Len(limited) /\ CopyEndsWell(req[r], limited)),
                ![r].ioFault = ~(n = Len(limited) /\ CopyEndsWell(req[r], limited)),
                ![r].pc = "done"]
    /\ UNCHANGED <<fs, activeDownloads, bulkVars>>

\* A bug: a failure of os.MkdirAll or os.CreateTemp fails the request.
MkTempOrGiveUp(r) ==
    /\ req[r].pc = "mktemp"
    /\ \/ /\ fs' = [fs EXCEPT ![TempOf(r)] = <<>>]
          /\ req' = [req EXCEPT ![r].caching = TRUE, ![r].pc = "stream"]
       \/ /\ req' = [req EXCEPT ![r].cacheFault = "mktemp", ![r].code = 500,
                                ![r].pc = "done"]
          /\ UNCHANGED fs
    /\ UNCHANGED <<activeDownloads, bulkVars>>

\* Lines 510-547: os.MkdirAll, then os.CreateTemp; either may fail, and the
\* request is then served without caching.
MkTemp(r) ==
    /\ req[r].pc = "mktemp"
    /\ \/ /\ fs' = [fs EXCEPT ![TempOf(r)] = <<>>]
          /\ req' = [req EXCEPT ![r].caching = TRUE, ![r].pc = "stream"]
       \/ /\ req' = [req EXCEPT ![r].cacheFault = "mktemp", ![r].pc = "pass"]
          /\ UNCHANGED fs
    /\ UNCHANGED <<activeDownloads, bulkVars>>

\* Lines 427-430: the upstream request carries a context derived from the
\* client's; a read of resp.Body fails once that context is cancelled.
ReadFails(cancelled) == cancelled

\* The client goes away while the response is streamed to it: r.Context(),
\* and with it ctx, is cancelled.
Disconnect(r) ==
    /\ req[r].pc = "stream"
    /\ ~req[r].cancelled
    /\ req' = [req EXCEPT ![r].cancelled = TRUE]
    /\ UNCHANGED <<fs, activeDownloads, bulkVars>>

\* io.LimitReader has handed out maxProxySize bytes: it returns io.EOF
\* itself, with no read of resp.Body.
LimitReached(limited) == Len(limited) = maxProxySize

\* Lines 549-561: one Read of the copy loop through the TeeReader (and the
\* brotli reader when decompressing): the byte goes to the temp file, then to
\* the client.  The origin read, the temp-file write and the client write may
\* each fail; io.Copy hands the client a byte that came with a tee error.
\* A body cut short of its declared length is a read error
\* (io.ErrUnexpectedEOF from net/http).  The loop ends with tempFile.Close().
Stream(r) ==
    LET q == req[r]
        limited == LimitReader(q.upstream)
        read == SubSeq(limited, 1, q.pos)
        next == SubSeq(limited, 1, q.pos + 1)
        fail(o) == [q EXCEPT !.copyErr = TRUE, !.pc = "closed", !.out = o,
                             !.ioFault = TRUE]
        teeFail(o) == [q EXCEPT !.copyErr = TRUE, !.pc = "closed", !.out = o,
                                !.cacheFault = "tee"]
    IN
    /\ q.pc = "stream"
    /\ IF q.needDecompress /\ BrBad(read)
         THEN req' = [req EXCEPT ![r] = fail(q.out)] /\ UNCHANGED fs
       ELSE IF q.needDecompress /\ BrComplete(read)
         THEN req' = [req EXCEPT ![r].pc = "closed", ![r].ok = TRUE]
              /\ UNCHANGED fs
       ELSE IF q.pos = Len(limited)
         THEN /\ req' = [req EXCEPT ![r] =
                    IF /\ CopyEndsWell(q, limited)
                       /\ (LimitReached(limited) \/ ~ReadFails(q.cancelled))
                    THEN [q EXCEPT !.pc = "closed", !.ok = TRUE]
                    ELSE fail(q.out)]
              /\ UNCHANGED fs
       ELSE \/ /\ ~ReadFails(q.cancelled)
               /\ req' = [req EXCEPT ![r].pos = q.pos + 1,
                                     ![r].out = ClientBytes(q, next)]
               /\ fs' = [fs EXCEPT ![TempOf(r)] = next]
            \/ /\ req' = [req EXCEPT ![r] = fail(q.out)]
               /\ UNCHANGED fs
            \/ /\ ~ReadFails(q.cancelled)
               /\ req' = [req EXCEPT ![r] = teeFail(ClientBytes(q, next))]
               /\ UNCHANGED fs
            \/ /\ ~ReadFails(q.cancelled)
               /\ req' = [req EXCEPT ![r] = fail(q.out)]
               /\ fs' = [fs EXCEPT ![TempOf(r)] = next]
    /\ UNCHANGED <<activeDownloads, bulkVars>>

\* A bug: the copy's error is ignored.
DiscardsNever(copyErr) == FALSE
\* Line 565: if copyErr != nil, the temp file is discarded.
Discards(copyErr) == copyErr

\* Lines 563-569: after tempFile.Close(), os.Remove when the copy failed.
Cleanup(r) ==
    /\ req[r].pc = "closed"
    /\ Discards(req[r].copyErr)
    /\ fs' = [fs EXCEPT ![TempOf(r)] = NoFile]
    /\ req' = [req EXCEPT ![r].pc = "done"]
    /\ UNCHANGED <<activeDownloads, bulkVars>>

\* Lines 571-575: os.Rename(tempFileName, localPath), os.Remove if it fails.
Commit(r) ==
    /\ req[r].pc = "closed"
    /\ ~Discards(req[r].copyErr)
    /\ \/ /\ fs' = [fs EXCEPT ![req[r].path] = fs[TempOf(r)],
                              ![TempOf(r)] = NoFile]
          /\ req' = [req EXCEPT ![r].committed = TRUE, ![r].pc = "done"]
       \/ /\ fs' = [fs EXCEPT ![TempOf(r)] = NoFile]
          /\ req' = [req EXCEPT ![r].cacheFault = "rename", ![r].pc = "done"]
    /\ UNCHANGED <<activeDownloads, bulkVars>>

\* -------------------------------------------------------------- downloadFile
\* A worker goroutine between items.
IdleWorker ==
    [pc |-> "recv", file |-> "", claimed |-> FALSE, err |-> "",
     enc |-> "", upstream |-> <<>>, pos |-> 0, copyErr |-> FALSE,
     renamed |-> FALSE]

\* Line 711: destPath := filepath.Join(outputDir, file)
DestPath(file) == <<file>>

\* A bug: the Delete is deferred before the claim is taken, so that every
\* return runs it.
ReturnAlwaysReleases(w, err) ==
    [w EXCEPT !.err = err, !.pc = "release", !.enc = "", !.upstream = <<>>,
              !.pos = 0]
\* A bug: a return that does not run the deferred Delete.
ReturnNoRelease(w, err) ==
    [w EXCEPT !.err = err, !.pc = "count", !.enc = "", !.upstream = <<>>,
              !.pos = 0]
\* downloadFile returns to the worker's loop, with or without an error; the
\* deferred activeDownloads.Delete runs first when the claim was taken.
Return(w, err) ==
    [w EXCEPT !.err = err, !.pc = IF w.claimed THEN "release" ELSE "count",
              !.enc = "", !.upstream = <<>>, !.pos = 0]

\* Lines 581-584: skip if the file exists.
DfStat(i) ==
    /\ wk[i].pc = "dfStat"
    /\ wk' = [wk EXCEPT ![i] =
                IF Exists(fs, DestPath(wk[i].file)) THEN Return(wk[i], "")
                ELSE [wk[i] EXCEPT !.pc = "dfClaim"]]
    /\ UNCHANGED <<fs, activeDownloads, req, files, workers, work, sent, closed,
                   mainPc, downloaded, skipped, failed, result, fetchFailed>>

\* A bug: the key is neither looked up nor stored.
ClaimNothing(m, key) == [loaded |-> FALSE, map |-> m]
\* A bug: a plain Store, which never reports the key as present.
StoreOnly(m, key) == [loaded |-> FALSE, map |-> m \cup {key}]
\* sync.Map.LoadOrStore(key, true): whether the key was already present.
LoadOrStore(m, key) == [loaded |-> key \in m, map |-> m \cup {key}]

\* Lines 586-590: claim the destination, or leave it to the goroutine that has.
DfClaim(i) ==
    /\ wk[i].pc = "dfClaim"
    /\ LET c == LoadOrStore(activeDownloads, DestPath(wk[i].file))
       IN  /\ activeDownloads' = c.map
           /\ wk' = [wk EXCEPT ![i] =
                        IF c.loaded THEN Return(wk[i], "")
                        ELSE [wk[i] EXCEPT !.claimed = TRUE, !.pc = "dfRecheck"]]
    /\ UNCHANGED <<fs, req, files, workers, work, sent, closed, mainPc,
                   downloaded, skipped, failed, result, fetchFailed>>

\* Lines 592-595: the file may have appeared meanwhile.
DfRecheck(i) ==
    /\ wk[i].pc = "dfRecheck"
    /\ wk' = [wk EXCEPT ![i] =
                IF Exists(fs, DestPath(wk[i].file)) THEN Return(wk[i], "")
                ELSE [wk[i] EXCEPT !.pc = "dfDo"]]
    /\ UNCHANGED <<fs, activeDownloads, req, files, workers, work, sent, closed,
                   mainPc, downloaded, skipped, failed, result, fetchFailed>>

\* What the origin may send for an item: its bytes under a Content-Encoding,
\* or bytes that are not of the encoding the header names.
Encode(enc, s) ==
    IF enc = "br" THEN BrEncode(s) ELSE IF enc = "gzip" THEN GzEncode(s) ELSE s
ItemResponses(file, encodings) ==
    {[enc |-> e, body |-> Encode(e, Raw(file))] : e \in encodings}
        \cup {[enc |-> e, body |-> Raw(file)] : e \in encodings \cap {"gzip"}}

\* Lines 597-630: os.MkdirAll, the request, the status check and the choice
\* of decompressor; each may fail and return its error.
DfDo(i, encodings) ==
    /\ wk[i].pc = "dfDo"
    /\ \/ \E e \in {"mkdir", "request", "status"} :
            /\ wk' = [wk EXCEPT ![i] = Return(wk[i], e)]
            /\ fetchFailed' = fetchFailed + 1
       \/ \E k \in ItemResponses(wk[i].file, encodings) :
            IF k.enc = "gzip" /\ ~GzHeaderOK(k.body)
            THEN /\ wk' = [wk EXCEPT ![i] = Return(wk[i], "gzip")]
                 /\ fetchFailed' = fetchFailed + 1
            ELSE /\ wk' = [wk EXCEPT ![i].enc = k.enc, ![i].upstream = k.body,
                                     ![i].pc = "dfCreate"]
                 /\ UNCHANGED fetchFailed
    /\ UNCHANGED <<fs, activeDownloads, req, files, workers, work, sent, closed,
                   mainPc, downloaded, skipped, failed, result>>

\* Lines 632-637: os.Create(tmpPath) truncates the file, or fails.
DfCreate(i) ==
    /\ wk[i].pc = "dfCreate"
    /\ \/ /\ fs' = [fs EXCEPT ![TmpPath(DestPath(wk[i].file))] = <<>>]
          /\ wk' = [wk EXCEPT ![i].pc = "dfCopy"]
          /\ UNCHANGED fetchFailed
       \/ /\ wk' = [wk EXCEPT ![i] = Return(wk[i], "create")]
          /\ fetchFailed' = fetchFailed + 1
          /\ UNCHANGED fs
    /\ UNCHANGED <<activeDownloads, req, files, workers, work, sent, closed,
                   mainPc, downloaded, skipped, failed, result>>

\* What the decompressor chosen at lines 619-630 has produced of `read`.
Decoded(enc, read) ==
    IF enc = "br" THEN BrOutput(read)
    ELSE IF enc = "gzip" THEN (IF Len(read) = 0 THEN <<>> ELSE GzOutput(read))
    ELSE read

\* Lines 639-640: one Read of io.Copy(out, body), which a failed read or
\* write ends with an error; the loop ends with out.Close().
DfCopy(i) ==
    LET w == wk[i]
        tmpPath == TmpPath(DestPath(w.file))
        read == SubSeq(w.upstream, 1, w.pos)
        next == SubSeq(w.upstream, 1, w.pos + 1)
        broken == /\ wk' = [wk EXCEPT ![i].copyErr = TRUE, ![i].pc = "dfClosed"]
                  /\ fetchFailed' = fetchFailed + 1
                  /\ UNCHANGED fs
        ended == /\ wk' = [wk EXCEPT ![i].pc = "dfClosed"]
                 /\ UNCHANGED <<fs, fetchFailed>>
    IN
    /\ w.pc = "dfCopy"
    /\ IF w.enc = "br" /\ BrBad(read) THEN broken
       ELSE IF w.enc = "br" /\ BrComplete(read) THEN ended
       ELSE IF w.pos = Len(w.upstream)
         THEN (IF w.enc = "br" THEN broken ELSE ended)
       ELSE \/ /\ wk' = [wk EXCEPT ![i].pos = w.pos + 1]
               /\ fs' = [fs EXCEPT ![tmpPath] = Decoded(w.enc, next)]
               /\ UNCHANGED fetchFailed
            \/ broken
    /\ UNCHANGED <<activeDownloads, req, files, workers, work, sent, closed,
                   mainPc, downloaded, skipped, failed, result>>

\* Line 641: if err != nil, the temp file is discarded.
DfDiscards(copyErr) == copyErr

\* Lines 641-644: os.Remove(tmpPath); return err.
DfRemove(i) ==
    /\ wk[i].pc = "dfClosed"
    /\ DfDiscards(wk[i].copyErr)
    /\ fs' = [fs EXCEPT ![TmpPath(DestPath(wk[i].file))] = NoFile]
    /\ wk' = [wk EXCEPT ![i] = Return(wk[i], "copy")]
    /\ UNCHANGED <<activeDownloads, req, files, workers, work, sent, closed,
                   mainPc, downloaded, skipped, failed, result, fetchFailed>>

\* Line 646: return os.Rename(tmpPath, destPath)
DfRename(i) ==
    LET destPath == DestPath(wk[i].file)
    IN
    /\ wk[i].pc = "dfClosed"
    /\ ~DfDiscards(wk[i].copyErr)
    /\ \/ /\ fs' = [fs EXCEPT ![destPath] = fs[TmpPath(destPath)],
                              ![TmpPath(destPath)] = NoFile]
          /\ wk' = [wk EXCEPT ![i] = Return([wk[i] EXCEPT !.renamed = TRUE], "")]
          /\ UNCHANGED fetchFailed
       \/ /\ wk' = [wk EXCEPT ![i] = Return(wk[i], "rename")]
          /\ fetchFailed' = fetchFailed + 1
          /\ UNCHANGED fs
    /\ UNCHANGED <<activeDownloads, req, files, workers, work, sent, closed,
                   mainPc, downloaded, skipped, failed, result>>

\* Line 590: defer activeDownloads.Delete(destPath)
DfRelease(i) ==
    /\ wk[i].pc = "release"
    /\ activeDownloads' = activeDownloads \ {DestPath(wk[i].file)}
    /\ wk' = [wk EXCEPT ![i].claimed = FALSE, ![i].pc = "count"]
    /\ UNCHANGED <<fs, req, files, workers, work, sent, closed, mainPc,
                   downloaded, skipped, failed, result, fetchFailed>>

\* ------------------------------------------------------- downloadWithWorkers
\* The goroutines started at lines 706-731.
Active == 1..workers

\* Line 710: for file := range work; the loop ends on a closed, empty channel.
Receive(i) ==
    /\ i \in Active
    /\ wk[i].pc = "recv"
    /\ \/ /\ work # <<>>
          /\ wk' = [wk EXCEPT ![i].file = Head(work), ![i].pc = "stat"]
          /\ work' = Tail(work)
       \/ /\ work = <<>> /\ closed
          /\ wk' = [wk EXCEPT ![i] = [IdleWorker EXCEPT !.pc = "exited"]]
          /\ UNCHANGED work
    /\ UNCHANGED <<fs, activeDownloads, req, files, workers, sent, closed,
                   mainPc, downloaded, skipped, failed, result, fetchFailed>>

\* Lines 713-720: skip an existing file, else call downloadFile.
Stat(i) ==
    /\ wk[i].pc = "stat"
    /\ IF Exists(fs, DestPath(wk[i].file))
       THEN /\ skipped' = skipped + 1
            /\ wk' = [wk EXCEPT ![i].pc = "recv"]
       ELSE /\ wk' = [wk EXCEPT ![i].pc = "dfStat"]
            /\ UNCHANGED skipped
    /\ UNCHANGED <<fs, activeDownloads, req, files, workers, work, sent, closed,
                   mainPc, downloaded, failed, result, fetchFailed>>

\* A bug: no result of downloadFile is counted as a failure.
CountsNothingAsFailed(err) == FALSE
\* Lines 720-728: which counter the result of downloadFile adds to.
CountsAsFailed(err) == err # ""

Count(i) ==
    /\ wk[i].pc = "count"
    /\ IF CountsAsFailed(wk[i].err)
       THEN failed' = failed + 1 /\ UNCHANGED downloaded
       ELSE downloaded' = downloaded + 1 /\ UNCHANGED failed
    /\ wk' = [wk EXCEPT ![i] = IdleWorker]
    /\ UNCHANGED <<fs, activeDownloads, req, files, workers, work, sent, closed,
                   mainPc, skipped, result, fetchFailed>>

\* Lines 733-736: work <- file blocks while the buffer (capacity workers) is full.
Send ==
    /\ mainPc = "send"
    /\ sent < Len(files)
    /\ Len(work) < workers
    /\ work' = Append(work, files[sent + 1])
    /\ sent' = sent + 1
    /\ UNCHANGED <<fs, activeDownloads, req, files, workers, closed, mainPc, wk,
                   downloaded, skipped, failed, result, fetchFailed>>

\* Line 737: close(work)
Close ==
    /\ mainPc = "send"
    /\ sent = Len(files)
    /\ closed' = TRUE
    /\ mainPc' = "wait"
    /\ UNCHANGED <<fs, activeDownloads, req, files, workers, work, sent, wk,
                   downloaded, skipped, failed, result, fetchFailed>>

\* A bug: the run returns without wg.Wait().
WaitGroupSkipped == TRUE
\* Line 740: wg.Wait() returns once every worker has run its deferred
\* wg.Done().
WaitGroupDone == \A i \in Active : wk[i].pc = "exited"

\* downloadWithWorkers has not returned.
NoResult == [returned |-> FALSE, err |-> FALSE, failedCount |-> 0]
\* Lines 742-750: failedCount := failed.Load(); the error names it, or nil.
Aggregate(failedCount) ==
    IF failedCount > 0
    THEN [returned |-> TRUE, err |-> TRUE, failedCount |-> failedCount]
    ELSE [returned |-> TRUE, err |-> FALSE, failedCount |-> 0]

\* Lines 739-750: wg.Wait(), then the aggregate error.
Wait ==
    /\ mainPc = "wait"
    /\ WaitGroupDone
    /\ result' = Aggregate(failed)
    /\ mainPc' = "done"
    /\ UNCHANGED <<fs, activeDownloads, req, files, workers, work, sent, closed,
                   wk, downloaded, skipped, failed, fetchFailed>>

\* ------------------------------------------------------------ specifications
\* Every list of at most n item names.
Lists(n) == UNION {[1..k -> ItemNames] : k \in 0..n}

\* The process starts with an empty cache directory and nothing in flight.
Start ==
    /\ fs = [p \in FsPaths |-> NoFile]
    /\ activeDownloads = {}
    /\ req = [r \in Reqs |-> IdleReq]
    /\ work = <<>>
    /\ sent = 0
    /\ closed = FALSE
    /\ mainPc = "send"
    /\ wk = [i \in Workers |-> IdleWorker]
    /\ downloaded = 0 /\ skipped = 0 /\ failed = 0
    /\ result = NoResult
    /\ fetchFailed = 0

Request(r, paths, accepts, queries, responses) ==
    \/ HandleVcsky(r, paths, accepts, queries) \/ ProxyLocal(r) \/ Peek(r)
    \/ Do(r, responses) \/ Pass(r) \/ MkTemp(r) \/ Stream(r) \/ Cleanup(r)
    \/ Commit(r)

Worker(i, encodings) ==
    \/ Receive(i) \/ Stat(i) \/ DfStat(i) \/ DfClaim(i) \/ DfRecheck(i)
    \/ DfDo(i, encodings) \/ DfCreate(i) \/ DfCopy(i) \/ DfRemove(i)
    \/ DfRename(i) \/ DfRelease(i) \/ Count(i)

Bulk(encodings) ==
    Send \/ Close \/ Wait \/ \E i \in Workers : Worker(i, encodings)

\* Accept-Encoding headers: every mix of br and gzip.
Accepts == {[br |-> b, gzip |-> g] : b \in BOOLEAN, g \in BOOLEAN}
\* r.URL.RawQuery: none, or a version stamp.
Queries == {"", "v=1"}
PlainOrAll == {[br |-> FALSE, gzip |-> FALSE], [br |-> TRUE, gzip |-> TRUE]}
Encodings == {"", "br", "gzip"}

\* The server with -download-cache: two live requests for an asset while one
\* worker fetches the same asset in the background.
Init == Start /\ files = <<"foo">> /\ workers = 1
Next ==
    \/ Bulk({""})
    \/ \E r \in Reqs : Request(r, {<<"foo">>}, PlainOrAll, {""}, {Found, NotFound})
Spec == Init /\ [][Next]_vars

\* A bulk run alone (-download): any item list, any worker count. The item
\* names are interchangeable, so a list is taken to start with foo.
ItemLists == {l \in Lists(MaxItems) : l = <<>> \/ l[1] = "foo"}
InitBulk == Start /\ files \in ItemLists /\ workers \in 1..MaxWorkers
NextBulk == Bulk(Encodings)
SpecBulk == InitBulk /\ [][NextBulk]_vars

\* A bulk run under the Go scheduler: while some goroutine can take a step,
\* one eventually does, and every call a worker makes returns.  The origin
\* sends the items unencoded.
NextBulkLive == Bulk({""})
SpecBulkLive == InitBulk /\ [][NextBulkLive]_vars /\ WF_vars(NextBulkLive)

\* A bulk run for any value of the -workers flag from 0 up, which line 64
\* takes as it is given; the item list is not empty.
InitFlag ==
    /\ Start
    /\ files \in ItemLists \ {<<>>}
    /\ workers \in 0..MaxWorkers
SpecFlag == InitFlag /\ [][NextBulkLive]_vars /\ WF_vars(NextBulkLive)

\* One live request of any kind against a cache directory that earlier runs
\* have filled with any of the asset's variants.
Cached(present) ==
    [p \in FsPaths |-> IF p \in present THEN OriginBody(p, FALSE) ELSE NoFile]
InitOne ==
    /\ \E present \in SUBSET AssetPaths : fs = Cached(present)
    /\ activeDownloads = {}
    /\ req = [r \in Reqs |-> IdleReq]
    /\ files = <<>> /\ workers = 1 /\ work = <<>> /\ sent = 0
    /\ closed = FALSE /\ mainPc = "send"
    /\ wk = [i \in Workers |-> IdleWorker]
    /\ downloaded = 0 /\ skipped = 0 /\ failed = 0
    /\ result = NoResult /\ fetchFailed = 0
\* The paths the one request may ask for.
RequestPaths == {p : p \in AssetPaths \cup {Up}}
NextOne ==
    \/ Request("r1", RequestPaths, Accepts, Queries, Responses)
    \/ Disconnect("r1")
SpecOne == InitOne /\ [][NextOne]_vars

\* The server with -download-cache while a client asks for the asset and
\* another asks for the names that temp files take in the cache directory:
\* the worker's foo.tmp and the first client's .tmp-* file.
TempPaths ==
    {p : p \in {TmpPath(q) : q \in ItemPaths} \cup {TempOf(r) : r \in Reqs}}
NextTemp ==
    \/ Bulk({""})
    \/ Request("r1", {<<"foo">>}, PlainOrAll, {""}, {Found})
    \/ Request("r2", {<<"foo", "tmp">>, TempOf("r1")}, PlainOrAll, {""},
               {NotFound})
SpecTemp == Init /\ [][NextTemp]_vars

\* ------------------------------------------------------------------ claims
InFlight(r) == req[r].pc \notin {"idle", "done"}
Foo == <<"foo">>
FooBr == <<"foo", "br">>
FooGz == <<"foo", "gz">>

\* C1 (as claimed): requests handled concurrently for one uncached path issue
\* at most one upstream fetch and at most one rename onto the path, and every
\* client whose response completed holds the upstream body.
C1_SingleFlight ==
    /\ \A r1, r2 \in Reqs :
        (r1 # r2 /\ req[r1].path = req[r2].path /\ InFlight(r1) /\ InFlight(r2))
            => ~(req[r1].fetched /\ req[r2].fetched)
    /\ \A r1, r2 \in Reqs :
        (r1 # r2 /\ req[r1].path = req[r2].path)
            => ~(req[r1].committed /\ req[r2].committed)
    /\ \A r \in Reqs :
        (req[r].pc = "done" /\ req[r].fetched /\ req[r].ok)
            => req[r].out = req[r].upstream

\* C2: a request that arrives when a file exists at its path P is answered
\* by serveLocalFile at once and never sends a request to the origin.
C2_CachedNeverFetches ==
    \A r \in Reqs :
        req[r].cachedAtStart =>
            /\ req[r].pc = "done"
            /\ ~req[r].fetched
            /\ req[r].servePath # NoPath
            /\ req[r].code = 200
C2_Witness ==
    \E r, r2 \in Reqs :
        /\ req[r].cachedAtStart /\ req[r].pc = "done" /\ req[r].acceptBr
        /\ InFlight(r2) /\ req[r2].fetched

\* C3: the file at a final path changes only by the rename of a temp file
\* whose writer has finished the copy and closed it; no step of proxyAndCache
\* or downloadFile writes into a final path.
FinalPaths == {p : p \in AssetPaths \cup ItemPaths}
RenamedOnto(p) ==
    \/ \E r \in Reqs :
        /\ req[r].pc = "closed" /\ ~req[r].copyErr /\ req[r].path = p
        /\ req'[r].pc = "done"
        /\ fs'[p] = fs[TempOf(r)] /\ fs'[TempOf(r)] = NoFile
    \/ \E i \in Workers :
        /\ wk[i].pc = "dfClosed" /\ ~wk[i].copyErr /\ DestPath(wk[i].file) = p
        /\ wk'[i].pc = "release"
        /\ fs'[p] = fs[TmpPath(p)] /\ fs'[TmpPath(p)] = NoFile
C3_AtomicCommit ==
    [][\A p \in FinalPaths : fs'[p] # fs[p] => RenamedOnto(p)]_vars
C3_Witness ==
    \E r1, r2 \in Reqs :
        /\ req[r1].committed /\ fs[Foo] = Raw("foo")
        /\ req[r2].pc = "stream" /\ Len(fs[TempOf(r2)]) = 1

\* C4: an operation whose copy failed (origin read, temp-file write or
\* client write) never renames, and its temp file is gone once it has
\* cleaned up; for proxyAndCache and for downloadFile.
C4_FailedCopyLeavesNothing ==
    /\ \A r \in Reqs :
        req[r].copyErr =>
            /\ ~req[r].committed
            /\ req[r].pc = "done" => fs[TempOf(r)] = NoFile
    /\ \A i \in Workers :
        wk[i].copyErr =>
            /\ ~wk[i].renamed
            /\ wk[i].pc = "release" =>
                    fs[TmpPath(DestPath(wk[i].file))] = NoFile
C4_Witness ==
    /\ \E r \in Reqs :
        /\ req[r].copyErr /\ req[r].caching /\ req[r].pc = "done"
        /\ req[r].pos = 1
    /\ \E i \in Workers : wk[i].copyErr /\ wk[i].pc = "release"

\* C5: a response that declares a Content-Length above maxProxySize is
\* refused before its body is read: the client gets 502 and no origin byte,
\* no temp file is created and nothing is renamed.
C5_DeclaredTooLargeRejected ==
    \A r \in Reqs :
        req[r].contentLength > maxProxySize =>
            /\ req[r].pc = "done"
            /\ req[r].code = 502
            /\ req[r].out = <<>> /\ req[r].pos = 0
            /\ ~req[r].caching /\ ~req[r].committed
            /\ fs[TempOf(r)] = NoFile
C5_Witness ==
    \E r \in Reqs :
        req[r].contentLength > maxProxySize /\ req[r].pc = "done"

\* C6 (as claimed): a 200 response with no declared length and a body longer
\* than maxProxySize is an error once maxProxySize bytes are read, and its
\* bytes are never renamed onto the final path.
C6_OverlongNeverCommitted ==
    \A r \in Reqs :
        (req[r].contentLength = -1 /\ req[r].big /\ req[r].caching)
            => /\ req[r].pos <= maxProxySize
               /\ ~req[r].committed
               /\ req[r].pos = maxProxySize /\ req[r].pc \in {"closed", "done"}
                    => req[r].copyErr

\* C7: of the callers of LoadOrStore for one destination, one holds the claim
\* at a time: a second caller gets it only after the holder's Delete.
Holders(p) == {i \in Workers : wk[i].claimed /\ DestPath(wk[i].file) = p}
C7_OneClaimant ==
    \A p \in ItemPaths :
        /\ Cardinality(Holders(p)) <= 1
        /\ Holders(p) # {} => p \in activeDownloads
C7_Witness ==
    \E i, j \in Workers :
        /\ i # j /\ wk[i].claimed /\ wk[i].pc = "dfCopy"
        /\ wk[j].file = wk[i].file /\ wk[j].pc = "count" /\ wk[j].err = ""
        /\ ~Exists(fs, DestPath(wk[i].file))

\* C8: a path is in activeDownloads exactly while a downloadFile call that
\* claimed it is running, whatever exit the call takes; when the bulk run
\* has returned, activeDownloads is empty.
InDownloadFile ==
    {"dfRecheck", "dfDo", "dfCreate", "dfCopy", "dfClosed", "release"}
Running(p) ==
    {i \in Workers : /\ wk[i].pc \in InDownloadFile /\ wk[i].claimed
                     /\ DestPath(wk[i].file) = p}
C8_ClaimReleasedOnEveryExit ==
    /\ \A p \in ItemPaths : p \in activeDownloads <=> Running(p) # {}
    /\ mainPc = "done" => activeDownloads = {}
C8_Witness ==
    /\ mainPc = "done" /\ activeDownloads = {}
    /\ failed = 2 /\ fetchFailed = 2

\* The destination files on disk.
OnDisk == {p \in ItemPaths : Exists(fs, p)}

\* C9: after a bulk run over a list of item names from an empty cache, with
\* any worker count, failed is the number of items whose fetch failed,
\* downloaded is the number of the other items, and as many destination
\* files are on disk as were counted downloaded.
C9_Tally ==
    mainPc = "done" =>
        /\ failed = fetchFailed
        /\ downloaded = Len(files) - failed
        /\ Cardinality(OnDisk) = downloaded

\* A request that found foo, foo.br and foo.gz cached and added nothing.
AllCached == \A p \in AssetPaths : Exists(fs, p)
Served(r) == req[r].pc = "done" /\ AllCached /\ ~req[r].committed
FromFile(r, p, enc) ==
    /\ ~req[r].fetched /\ req[r].servePath = p /\ ~req[r].decompressed
    /\ req[r].encoding = enc /\ req[r].out = fs[p]
AcceptsNothing(r) == ~req[r].acceptBr /\ ~req[r].acceptGz

\* C10 (as claimed): with foo, foo.br and foo.gz cached, a request for foo
\* that accepts brotli gets foo.br as it is, with Content-Encoding br; one
\* that accepts no encoding gets foo.br decompressed, with no
\* Content-Encoding, equal to the bytes that were compressed.
C10_DecompressedForPlainClient ==
    \A r \in Reqs :
        (Served(r) /\ req[r].path = Foo) =>
            /\ req[r].acceptBr => FromFile(r, FooBr, "br")
            /\ AcceptsNothing(r) =>
                /\ ~req[r].fetched /\ req[r].servePath = FooBr
                /\ req[r].decompressed /\ req[r].encoding = ""
                /\ req[r].out = Raw("foo")

\* C10 (amended): the request for foo that accepts no encoding gets the raw
\* file foo as it is; it is the request for foo.br accepting no encoding that
\* gets foo.br decompressed, with no Content-Encoding, equal to the bytes
\* that were compressed.
C10_RawForPlainClient ==
    \A r \in Reqs :
        /\ (Served(r) /\ req[r].path = Foo) =>
            /\ req[r].acceptBr => FromFile(r, FooBr, "br")
            /\ AcceptsNothing(r) => FromFile(r, Foo, "")
        /\ (Served(r) /\ req[r].path = FooBr /\ AcceptsNothing(r)) =>
            /\ ~req[r].fetched /\ req[r].servePath = FooBr
            /\ req[r].decompressed /\ req[r].encoding = ""
            /\ req[r].out = Raw("foo")
C10_Witness ==
    \E r \in Reqs :
        /\ Served(r) /\ req[r].path = FooBr /\ AcceptsNothing(r)
        /\ req[r].decompressed /\ req[r].out = Raw("foo")

\* The step in which handleVcsky resolves request r, for path p, against the
\* cache as it is.
Resolves(r, p) == req[r].pc = "idle" /\ req'[r].pc # "idle" /\ req'[r].path = p
LocalAs(r, p, enc) ==
    /\ req'[r].pc = "done" /\ ~req'[r].fetched /\ req'[r].servePath = p
    /\ req'[r].encoding = enc /\ ~req'[r].decompressed /\ req'[r].out = fs[p]
LocalDecompressed(r, p) ==
    /\ req'[r].pc = "done" /\ ~req'[r].fetched /\ req'[r].servePath = p
    /\ req'[r].encoding = "" /\ req'[r].decompressed
    /\ req'[r].out = Raw("foo")
Miss(r) == req'[r].pc = "proxy" /\ req'[r].servePath = NoPath

\* C11 (as claimed): a request for foo gets foo.br as it is when brotli is
\* accepted and foo.br exists; else foo.gz as it is when gzip is accepted and
\* foo.gz exists; else the raw foo when it exists; else foo.br decompressed
\* with no Content-Encoding when foo.br exists; else it is a cache miss.
C11_BrotliFallbackForBasePath ==
    [][\A r \in Reqs : Resolves(r, Foo) =>
        IF req'[r].acceptBr /\ Exists(fs, FooBr) THEN LocalAs(r, FooBr, "br")
        ELSE IF req'[r].acceptGz /\ Exists(fs, FooGz) THEN LocalAs(r, FooGz, "gzip")
        ELSE IF Exists(fs, Foo) THEN LocalAs(r, Foo, "")
        ELSE IF Exists(fs, FooBr) THEN LocalDecompressed(r, FooBr)
        ELSE Miss(r)]_vars

\* C11 (amended): the same priority, but a request for foo is a cache miss
\* as soon as neither an accepted variant nor the raw foo exists; foo.br is
\* decompressed, with no Content-Encoding, for the request whose path is
\* foo.br itself and whose client does not accept brotli.  A foo.gz the
\* client does not accept is never decompressed for a request for foo.
C11_VariantPriority ==
    [][\A r \in Reqs :
        /\ Resolves(r, Foo) =>
            IF req'[r].acceptBr /\ Exists(fs, FooBr) THEN LocalAs(r, FooBr, "br")
            ELSE IF req'[r].acceptGz /\ Exists(fs, FooGz)
                THEN LocalAs(r, FooGz, "gzip")
            ELSE IF Exists(fs, Foo) THEN LocalAs(r, Foo, "")
            ELSE Miss(r)
        /\ Resolves(r, FooBr) =>
            IF req'[r].acceptBr /\ Exists(fs, FooBr) THEN LocalAs(r, FooBr, "br")
            ELSE IF req'[r].acceptGz /\ Exists(fs, FooGz)
                THEN LocalAs(r, FooGz, "gzip")
            ELSE IF Exists(fs, FooBr) THEN LocalDecompressed(r, FooBr)
            ELSE Miss(r)]_vars
C11_Witness ==
    \E r \in Reqs :
        /\ req[r].pc = "proxy" /\ req[r].path = Foo /\ AcceptsNothing(r)
        /\ Exists(fs, FooBr) /\ ~Exists(fs, Foo)

\* C12: a request whose path has a parent-directory segment is answered
\* NotFound with no access to the cache directory, no request to the origin
\* and no use of activeDownloads.
C12_TraversalNotFound ==
    \A r \in Reqs :
        (req[r].pc # "idle" /\ \E i \in 1..Len(req[r].path) : req[r].path[i] = "..") =>
            /\ req[r].pc = "done" /\ req[r].code = 404
            /\ req[r].out = NotFoundPage
            /\ ~req[r].statted /\ ~req[r].fetched /\ ~req[r].peeked
            /\ ~req[r].caching /\ ~req[r].committed
            /\ ~Exists(fs, TempOf(r)) /\ activeDownloads = {}
C12_Witness ==
    \E r \in Reqs : req[r].pc = "done" /\ req[r].path = Up /\ req[r].code = 404

\* The step that worker i takes from the point pc of downloadFile.
StepsFrom(i, pc) == wk[i].pc = pc /\ wk'[i] # wk[i]
\* downloadFile returns nil to worker i, having sent no request and written
\* no file, and leaves activeDownloads as it is.
ReturnsUntouched(i) ==
    /\ wk'[i].err = "" /\ wk'[i].upstream = <<>> /\ ~wk'[i].renamed
    /\ fs' = fs /\ activeDownloads' = activeDownloads
    /\ fetchFailed' = fetchFailed

\* C13: downloadFile returns nil with no request and no write when the
\* destination exists at the call, when another call holds the claim (the
\* caller then takes no claim and releases none), and when the destination
\* exists at the re-check after the claim (the caller then releases its own).
C13_IdempotentExits ==
    [][\A i \in Workers :
        LET destPath == DestPath(wk[i].file)
        IN  /\ (StepsFrom(i, "dfStat") /\ Exists(fs, destPath)) =>
                ReturnsUntouched(i) /\ wk'[i].pc = "count" /\ ~wk'[i].claimed
            /\ (StepsFrom(i, "dfClaim") /\ destPath \in activeDownloads) =>
                ReturnsUntouched(i) /\ wk'[i].pc = "count" /\ ~wk'[i].claimed
            /\ (StepsFrom(i, "dfRecheck") /\ Exists(fs, destPath)) =>
                ReturnsUntouched(i) /\ wk'[i].pc = "release" /\ wk'[i].claimed
            /\ (StepsFrom(i, "release") /\ wk[i].err = "" /\ ~wk[i].renamed) =>
                /\ activeDownloads' = activeDownloads \ {destPath}
                /\ fs' = fs /\ wk'[i].err = ""]_vars
C13_Witness ==
    \E i \in Workers :
        /\ wk[i].pc = "release" /\ wk[i].err = "" /\ ~wk[i].renamed
        /\ wk[i].claimed /\ Exists(fs, DestPath(wk[i].file))

\* C14: a proxied request for a 200 response within the cap, whose cache
\* layer failed (directory or temp-file creation, a write to the temp file,
\* the rename) while the origin and the client did not, has sent the client
\* the complete body.
C14_CacheFailureStillServes ==
    \A r \in Reqs :
        (/\ req[r].pc = "done" /\ req[r].status = 200 /\ ~req[r].big
         /\ req[r].cacheFault # "" /\ ~req[r].ioFault) =>
            /\ req[r].ok
            /\ req[r].out = ClientBytes(req[r], req[r].upstream)

\* A rename onto p succeeds in this step.
CommitsOnto(p) ==
    \/ \E r \in Reqs : req[r].path = p /\ ~req[r].committed /\ req'[r].committed
    \/ \E i \in Workers :
        DestPath(wk[i].file) = p /\ ~wk[i].renamed /\ wk'[i].renamed

\* C15: a file that exists at a final path is never replaced, rewritten or
\* deleted: no step renames onto it or changes its bytes.
C15_CommittedOnce ==
    [][\A p \in FinalPaths :
        Exists(fs, p) => (fs'[p] = fs[p] /\ ~CommitsOnto(p))]_vars

\* C16: the bytes that proxyAndCache renames onto localPath are the whole
\* body the origin sent, as it sent it, whether or not the client's stream
\* was decompressed.
C16_CommitsWholeBody ==
    [][\A r \in Reqs :
        (~req[r].committed /\ req'[r].committed) =>
            fs'[req[r].path] = req[r].upstream]_vars

\* The origin answered request r with something other than 200, or the
\* request found its path in activeDownloads.
NotToCache(r) ==
    /\ req[r].fetched /\ req[r].status # 0
    /\ (req[r].status # 200 \/ req[r].alreadyDownloading)

\* C17: such a request creates no temp file and renames nothing; the
\* response is passed through to the client.
C17_PassThroughNeverCaches ==
    \A r \in Reqs :
        NotToCache(r) =>
            /\ req[r].pc \in {"pass", "done"}
            /\ ~req[r].caching /\ ~req[r].committed /\ req[r].cacheFault = ""
            /\ ~Exists(fs, TempOf(r))
            /\ (req[r].pc = "done" /\ ~req[r].ioFault /\ req[r].code # 502) =>
                /\ req[r].code = req[r].status
                /\ req[r].out = ClientBytes(req[r], LimitReader(req[r].upstream))
C17_Witness ==
    \E r \in Reqs :
        /\ req[r].pc = "done" /\ req[r].alreadyDownloading /\ req[r].status = 200
        /\ req[r].ok /\ req[r].out = Raw("foo") /\ ~req[r].committed

\* A proxied request that got the origin's response through to the client
\* with no failure on the way.
PassedOn(r) ==
    /\ req[r].pc = "done" /\ req[r].fetched /\ req[r].status # 0
    /\ req[r].code # 502 /\ ~req[r].ioFault /\ req[r].cacheFault # "tee"

\* C18: a proxied request answered 200 whose path ends in .br, from a
\* client that does not accept brotli, gets the body decompressed with no
\* Content-Encoding and no Content-Length, with or without a query string;
\* any other proxied request gets the origin's bytes as they are.
C18_DecompressedWhateverTheQuery ==
    \A r \in Reqs :
        (PassedOn(r) /\ req[r].status = 200) =>
            IF HasSuffix(req[r].path, "br") /\ ~req[r].acceptBr
            THEN /\ req[r].out = BrOutput(LimitReader(req[r].upstream))
                 /\ req[r].encoding = "" /\ req[r].sentLength = -1
            ELSE req[r].out = LimitReader(req[r].upstream)

\* C19: a request whose client went away while it was streaming never
\* renames its temp file, and has removed it when it returns.
C19_DisconnectDiscards ==
    \A r \in Reqs :
        req[r].cancelled =>
            /\ ~req[r].committed
            /\ req[r].pc = "done" => ~Exists(fs, TempOf(r))

\* C20: a bulk run over any item list with any worker count returns; when it
\* has returned every worker has exited, every item was sent and taken, and
\* downloaded + skipped + failed is the number of items.
C20_BulkRunReturns ==
    /\ <>(mainPc = "done")
    /\ [](mainPc = "done" =>
            /\ \A i \in Active : wk[i].pc = "exited"
            /\ sent = Len(files) /\ work = <<>> /\ closed
            /\ downloaded + skipped + failed = Len(files))
C20_Witness ==
    /\ mainPc = "done" /\ Len(files) = 2 /\ workers = 2
    /\ downloaded = 1 /\ skipped = 0 /\ failed = 1

\* C21: downloadWithWorkers returns an error exactly when some call of
\* downloadFile returned one; the error carries the final value of failed,
\* which is the number of those calls; every worker has exited when the
\* result exists; with no failure the result is nil.
C21_AggregateError ==
    result.returned =>
        /\ mainPc = "done"
        /\ \A i \in Active : wk[i].pc = "exited"
        /\ result.err <=> fetchFailed > 0
        /\ result.err <=> failed > 0
        /\ result.err => result.failedCount = failed /\ failed = fetchFailed
        /\ ~result.err => result = Aggregate(0)
C21_Witness ==
    /\ result.returned /\ result.err /\ result.failedCount = 1
    /\ downloaded = 1 /\ workers = 2

\* The downloadFile calls between os.Create(P.tmp) and its rename or removal.
TmpWriters(p) ==
    {i \in Workers : wk[i].pc \in {"dfCopy", "dfClosed"} /\ DestPath(wk[i].file) = p}

\* C22: for a destination P, at most one downloadFile call at a time is
\* between creating P.tmp and renaming or removing it, and that call holds
\* the claim on P.
C22_OneTmpWriter ==
    \A p \in ItemPaths :
        /\ Cardinality(TmpWriters(p)) <= 1
        /\ TmpWriters(p) \subseteq Holders(p)
C22_Witness ==
    \E i, j \in Workers :
        /\ i # j /\ wk[i].pc = "dfClosed" /\ ~wk[i].copyErr
        /\ wk[j].file = wk[i].file /\ wk[j].pc = "dfClaim"
        /\ Len(fs[TmpPath(DestPath(wk[i].file))]) = 2

\* The live requests that hold a temp file to be renamed onto p.
TempHolders(p) ==
    {r \in Reqs : req[r].pc \in {"stream", "closed"} /\ req[r].caching
                  /\ req[r].path = p}

\* C23 (as claimed): at no time do two operations, live requests and bulk
\* fetches alike, both hold a temp file to be renamed onto the same path.
C23_WritersSerialized ==
    \A p \in FinalPaths :
        Cardinality(TempHolders(p)) + Cardinality(TmpWriters(p)) <= 1

C25_NoTempLeftBehind ==
    /\ \A r \in Reqs : req[r].pc = "done" => ~Exists(fs, TempOf(r))
    /\ \A p \in ItemPaths : Exists(fs, TmpPath(p)) => TmpWriters(p) # {}

\* C26 (as claimed): a request is served from a committed file at a final
\* path or from the origin: serveLocalFile never serves a P.tmp or a .tmp-*
\* file that a fetch is writing.
C26_NeverServesTempFile ==
    \A r \in Reqs :
        req[r].servePath # NoPath =>
            /\ req[r].servePath \notin TempPaths
            /\ req[r].servePath \in FinalPaths

\* C27 (as claimed): a bulk run over a non-empty item list returns for
\* every worker count the -workers flag accepts, 0 included.
C27_ReturnsForEveryWorkerCount == <>(mainPc = "done")

=============================================================================
